---- MODULE Spec2Model ----
(***************************************************************************)
(* btc-miner/src/main.rs: a console that reads command lines from standard *)
(* input, races them against a 15 second timer in one select! loop, and    *)
(* forwards each command to a bitcoind RPC client.                         *)
(*                                                                         *)
(* A line is a sequence of pieces: the piece " " is one space character,   *)
(* any other piece is a run of non-space characters.  Remote calls block   *)
(* the only thread: the model splits a handler at each remote call, and    *)
(* the call's outcome (a payload, a failure, or no answer at all) is the   *)
(* environment's choice.                                                   *)
(***************************************************************************)
EXTENDS Integers, Sequences, FiniteSets, TLC

VARIABLES
    pc,             \* "init" | "entry" | "select" | "rpc" | "returned" | "panicked"
    frame,          \* the locals of the function that made the event's last remote call
    rpc,            \* the remote calls outstanding (requests not yet answered)
    calls,          \* the remote calls issued by the event being handled
    replies,        \* the answers those calls have received
    out,            \* the lines printed by the event being handled
    now,            \* Instant::now()
    deadline,       \* the deadline of the pinned Sleep
    expired,        \* the deadline that had elapsed when the timer branch ran
    stdin_ready,    \* at least one complete line is waiting in standard input
    stdin_eof,      \* standard input has been closed by the writer
    event,          \* what is being handled: "startup" | "line" | "timer" | "miner" | "none"
    line            \* the line handed to handle_input_line

vars == <<pc, frame, rpc, calls, replies, out, now, deadline, expired,
          stdin_ready, stdin_eof, event, line>>

-----------------------------------------------------------------------------
(* Bounds of the model. *)

MaxNow == 20
TickSecs == 5
MaxMempool == 2
MaxArgs == 2

(* Constants of the program. *)

InitialSleepSecs == 15
RearmSecs == 15
BlocksToGenerate == 1
NoDeadline == -1

-----------------------------------------------------------------------------
(* Text. *)

SP == " "
WalletName == "miner"
ValidAddresses == {"bcrt1qaddr"}
NewAddresses == {"bcrt1qnew"}
TxIds == {"abc123"}
BlockCounts == {101}
Balances == {1250000000}
RpcErrors == {"rpc error"}

Keywords == {"sendtoaddress", "mine", "balance", "blockcount"}
FirstWords == Keywords \cup {"foo", ""}
ArgWords == {"bcrt1qaddr", "notanumber", "0.5", "-1", "balance", ""}

NoLine == <<"<no line>">>

Piece(w) == IF w = "" THEN <<>> ELSE <<w>>

RECURSIVE JoinWords(_)
JoinWords(ws) ==
    IF ws = <<>> THEN <<>>
    ELSE IF Len(ws) = 1 THEN Piece(ws[1])
    ELSE Piece(ws[1]) \o <<SP>> \o JoinWords(Tail(ws))

ArgLists == UNION {[1..k -> ArgWords] : k \in 0..MaxArgs}

(* A word after the last of MaxArgs later words. *)
ExtraWord == "extra"

LongLines ==
    {JoinWords(<<f>> \o a \o <<ExtraWord>>) : f \in FirstWords, a \in [1..MaxArgs -> ArgWords]}

Lines ==
    {<<>>} \cup {JoinWords(<<f>> \o a) : f \in FirstWords, a \in ArgLists} \cup LongLines

(* line.split(' '): the fields between single spaces, empty fields kept. *)
RECURSIVE SplitFrom(_, _, _)
SplitFrom(s, i, cur) ==
    IF i > Len(s) THEN <<cur>>
    ELSE IF s[i] = SP THEN <<cur>> \o SplitFrom(s, i + 1, <<>>)
    ELSE SplitFrom(s, i + 1, Append(cur, s[i]))

(* Mutant: the empty fields are dropped, as split_whitespace would. *)
SplitSkipEmpty(s) == SelectSeq(SplitFrom(s, 1, <<>>), LAMBDA t : t # <<>>)

RECURSIVE Glue(_)
(* The fields put together again, a space between each two. *)
Glue(fs) ==
    IF Len(fs) = 1 THEN fs[1]
    ELSE fs[1] \o <<SP>> \o Glue(Tail(fs))

(* Mutant: splitn(3, ' '), whose third field is the rest of the line. *)
SplitThree(s) ==
    LET fs == SplitFrom(s, 1, <<>>) IN
    IF Len(fs) <= 3 THEN fs
    ELSE <<fs[1], fs[2], Glue(SubSeq(fs, 3, Len(fs)))>>

Split(s) == SplitFrom(s, 1, <<>>)

(* Results of fallible operations. *)
Ok(s, n) == [ok |-> TRUE, s |-> s, n |-> n]
Err(s) == [ok |-> FALSE, s |-> s, n |-> 0]

(* Mutant: an unparsable amount reads as zero. *)
F64FromStrLenient(tok) ==
    CASE tok = <<"0.5">> -> Ok("", 50000000)
      [] tok = <<"-1">> -> Ok("", -100000000)
      [] OTHER -> Ok("", 0)

(* f64::from_str: the value in units of 1e-8 (satoshi). *)
F64FromStr(tok) ==
    CASE tok = <<"0.5">> -> Ok("", 50000000)
      [] tok = <<"-1">> -> Ok("", -100000000)
      [] tok = <<>> -> Err("cannot parse float from empty string")
      [] OTHER -> Err("invalid float literal")

(* Mutant: the value is taken as a count of whole coins already in satoshi. *)
AmountFromBtcAsSat(v) ==
    IF v < 0 THEN Err("Negative") ELSE Ok("", v \div 100000000)

(* Amount::from_btc: a negative value is an error. *)
AmountFromBtc(v) ==
    IF v < 0 THEN Err("Negative") ELSE Ok("", v)

(* Mutant: any one-word string is taken for an address. *)
AddressFromStrUnchecked(tok) ==
    IF Len(tok) = 1 THEN Ok(tok[1], 0) ELSE Err("address parse error")

(* Address::from_str. *)
AddressFromStr(tok) ==
    IF Len(tok) = 1 /\ tok[1] \in ValidAddresses
    THEN Ok(tok[1], 0)
    ELSE Err("address parse error")

-----------------------------------------------------------------------------
(* Output and remote requests. *)

Println(msg, addr, s, n) == [fd |-> "stdout", msg |-> msg, addr |-> addr, s |-> s, n |-> n]
Eprintln(msg, addr, s, n) == [fd |-> "stderr", msg |-> msg, addr |-> addr, s |-> s, n |-> n]

(* Mutant: the line is printed whatever the condition. *)
AlwaysPrint(cond, o, e) == Append(o, e)

ConditionalPrint(cond, o, e) == IF cond THEN Append(o, e) ELSE o

Request(op, arg, n) == [op |-> op, arg |-> arg, n |-> n]

Frame(fn, site, do_print, n, addr) ==
    [fn |-> fn, site |-> site, do_print |-> do_print, n |-> n, addr |-> addr]

NoFrame == Frame("none", "none", FALSE, 0, <<>>)

(* The function returns to its caller's caller, the loop body. *)
Return(pending, c, o) ==
    /\ pc' = "returned"
    /\ frame' = frame
    /\ rpc' = pending
    /\ calls' = c
    /\ out' = o

(* unwrap / expect on an Err: the main thread panics, the process exits. *)
Panic(pending, c, o, msg, cause) ==
    /\ pc' = "panicked"
    /\ frame' = frame
    /\ rpc' = pending
    /\ calls' = c
    /\ out' = Append(o, Eprintln(msg, <<>>, cause, 0))

(* A blocking remote call: the thread waits for the answer. *)
Call(pending, c, o, req, fr) ==
    /\ pc' = "rpc"
    /\ frame' = fr
    /\ rpc' = Append(pending, req)
    /\ calls' = Append(c, req)
    /\ out' = o

Answered(op) == pc = "rpc" /\ rpc # <<>> /\ Head(rpc).op = op

(* What the remote node may answer. *)
Failures == {Err(e) : e \in RpcErrors}
LoadWalletResults == {Ok(WalletName, 0)} \cup Failures
BlockCountResults == {Ok("", n) : n \in BlockCounts} \cup Failures
BalanceResults == {Ok("", n) : n \in Balances} \cup Failures
MempoolResults == {Ok("", n) : n \in 0..MaxMempool} \cup Failures
NewAddressResults == {Ok(a, 0) : a \in NewAddresses} \cup Failures
GenerateResults == {Ok("", BlocksToGenerate)} \cup Failures
SendResults == {Ok(t, 0) : t \in TxIds} \cup Failures

-----------------------------------------------------------------------------
(* The wrappers, up to their remote call. *)

CheckBlockCount(pending, c, o, site) ==
    Call(pending, c, o, Request("getBlockCount", "", 0),
         Frame("check_block_count", site, FALSE, 0, <<>>))

CheckBalance(pending, c, o, site) ==
    Call(pending, c, o, Request("getBalance", "", 0),
         Frame("check_balance", site, FALSE, 0, <<>>))

SendToAddress(pending, c, o, address_string, amount) ==
    LET parsed == AddressFromStr(address_string) IN
    IF parsed.ok
    THEN Call(pending, c, o, Request("sendToAddress", parsed.s, amount),
              Frame("send_to_address", "line", FALSE, 0, address_string))
    ELSE Return(pending, c,
                Append(o, Eprintln("Error parsing address {:?}", <<>>, parsed.s, 0)))

GenerateBlocksIfRequired(pending, c, o, do_print) ==
    Call(pending, c,
         ConditionalPrint(do_print, o,
                          Println("Checking for new transactions", <<>>, "", 0)),
         Request("getRawMempool", "", 0),
         Frame("generate_blocks_if_required", "caller", do_print, 0, <<>>))

(* args.next() for the i-th call on the iterator. *)
Some(tok) == [some |-> TRUE, tok |-> tok]
None == [some |-> FALSE, tok |-> <<>>]

(* Mutant: an exhausted iterator yields an empty argument. *)
NextArgOrEmpty(args, i) == IF i <= Len(args) THEN Some(args[i]) ELSE Some(<<>>)

NextArg(args, i) == IF i <= Len(args) THEN Some(args[i]) ELSE None

IsKeyword(arg, kw) == arg.some /\ arg.tok = <<kw>>

(* The sendtoaddress arm of handle_input_line. *)
DispatchSend(pending, args) ==
    LET address == NextArg(args, 2)
        amount == NextArg(args, 3)
    IN
    IF ~address.some
    THEN Return(pending, <<>>, <<Eprintln("Bitcoin address required", <<>>, "", 0)>>)
    ELSE IF ~amount.some
    THEN Return(pending, <<>>, <<Eprintln("Bitcoin address required", <<>>, "", 0)>>)
    ELSE LET amount_f64 == F64FromStr(amount.tok) IN
         IF amount_f64.ok
         THEN LET amt == AmountFromBtc(amount_f64.n) IN
              IF amt.ok
              THEN SendToAddress(pending, <<>>, <<>>, address.tok, amt.n)
              ELSE Panic(pending, <<>>, <<>>,
                         "called Result::unwrap on an Err value", amt.s)
         ELSE Return(pending, <<>>,
                     <<Eprintln("Error parsing amount {:?}", <<>>, amount_f64.s, 0)>>)

(* handle_input_line, up to its first remote call or its return. *)
Dispatch(pending, l) ==
    LET args == Split(l)
        command == NextArg(args, 1)
    IN
    CASE IsKeyword(command, "sendtoaddress") -> DispatchSend(pending, args)
      [] IsKeyword(command, "mine") -> GenerateBlocksIfRequired(pending, <<>>, <<>>, TRUE)
      [] IsKeyword(command, "balance") -> CheckBalance(pending, <<>>, <<>>, "line")
      [] IsKeyword(command, "blockcount") -> CheckBlockCount(pending, <<>>, <<>>, "line")
      [] OTHER -> Return(pending, <<>>, <<Eprintln("Invalid command", <<>>, "", 0)>>)

-----------------------------------------------------------------------------
(* The environment: the clock and the writer of standard input.  Standard
   input is followed while the process lives. *)

(* Time passes only while the thread waits: in select! or in a remote call.
   Instants are counted from the making of the Sleep, the first reading of
   the clock: no clock step is taken before it.  The clock is followed in
   steps of TickSecs seconds. *)
Tick ==
    /\ pc \in {"select", "rpc"}
    /\ event # "startup"
    /\ now + TickSecs <= MaxNow
    /\ now' = now + TickSecs
    /\ UNCHANGED <<pc, frame, rpc, calls, replies, out, deadline, expired,
                   stdin_ready, stdin_eof, event, line>>

LineArrives ==
    /\ pc # "panicked"
    /\ ~stdin_eof
    /\ ~stdin_ready
    /\ stdin_ready' = TRUE
    /\ UNCHANGED <<pc, frame, rpc, calls, replies, out, now, deadline, expired,
                   stdin_eof, event, line>>

StdinClose ==
    /\ pc # "panicked"
    /\ ~stdin_eof
    /\ stdin_eof' = TRUE
    /\ UNCHANGED <<pc, frame, rpc, calls, replies, out, now, deadline, expired,
                   stdin_ready, event, line>>

-----------------------------------------------------------------------------
(* main: startup. *)

MainStart ==
    /\ pc = "init"
    /\ event' = "startup"
    /\ replies' = <<>>
    /\ Call(rpc, <<>>, <<>>, Request("loadWallet", WalletName, 0),
            Frame("main", "startup", FALSE, 0, <<>>))
    /\ UNCHANGED <<now, deadline, expired, stdin_ready, stdin_eof, line>>

(* Mutant: the wallet is loaded with expect, so a failure panics. *)
AfterLoadWalletFatal(pending, c, o, res) ==
    IF res.ok
    THEN CheckBlockCount(pending, c,
                         Append(o, Println("Loaded wallet {}", <<>>, res.s, 0)),
                         "startup")
    ELSE Panic(pending, c, o, "Failed to load wallet", res.s)

(* The match on load_wallet's result, and check_block_count after it. *)
AfterLoadWallet(pending, c, o, res) ==
    CheckBlockCount(pending, c,
                    Append(o, IF res.ok
                              THEN Println("Loaded wallet {}", <<>>, res.s, 0)
                              ELSE Println("Failed to load wallet {:?}", <<>>, res.s, 0)),
                    "startup")

LoadWalletReturn(res) ==
    /\ Answered("loadWallet")
    /\ replies' = Append(replies, res)
    /\ AfterLoadWallet(Tail(rpc), calls, out, res)
    /\ UNCHANGED <<now, deadline, expired, stdin_ready, stdin_eof, event, line>>

(* sleep(Duration::from_secs(15)): the deadline is taken when the Sleep is made. *)
SleepDeadline == now + InitialSleepSecs

GetBlockCountReturn(res) ==
    /\ Answered("getBlockCount")
    /\ replies' = Append(replies, res)
    /\ IF res.ok
       THEN LET o == Append(out, Println("Current block count: {}", <<>>, "", res.n)) IN
            IF frame.site = "startup"
            THEN CheckBalance(Tail(rpc), calls, o, "startup")
            ELSE Return(Tail(rpc), calls, o)
       ELSE Panic(Tail(rpc), calls, out, "Failed to get block count", res.s)
    /\ UNCHANGED <<now, deadline, expired, stdin_ready, stdin_eof, event, line>>

(* Mutant: check_balance copied from check_block_count, its text unchanged. *)
BalanceLineAsBlockCount(balance) == Println("Current block count: {}", <<>>, "", balance)

(* println!("Current balance: {}", balance) *)
BalanceLine(balance) == Println("Current balance: {}", <<>>, "", balance)

GetBalanceReturn(res) ==
    /\ Answered("getBalance")
    /\ replies' = Append(replies, res)
    /\ IF res.ok
       THEN LET o == Append(out, BalanceLine(res.n)) IN
            IF frame.site = "startup"
            THEN /\ Return(Tail(rpc), calls,
                           Append(o, Println("-- TYPE COMMANDS --", <<>>, "", 0)))
                 /\ deadline' = SleepDeadline
            ELSE /\ Return(Tail(rpc), calls, o)
                 /\ deadline' = deadline
       ELSE /\ Panic(Tail(rpc), calls, out, "Failed to get balance", res.s)
            /\ deadline' = deadline
    /\ UNCHANGED <<now, expired, stdin_ready, stdin_eof, event, line>>

-----------------------------------------------------------------------------
(* main: the loop. *)

(* loop { select! { ... } }: the next iteration starts; the locals of the
   finished one are gone. *)
LoopNext ==
    /\ pc = "returned"
    /\ pc' = "select"
    /\ event' = "none"
    /\ line' = NoLine
    /\ calls' = <<>>
    /\ out' = <<>>
    /\ replies' = <<>>
    /\ expired' = NoDeadline
    /\ frame' = NoFrame
    /\ UNCHANGED <<rpc, now, deadline, stdin_ready, stdin_eof>>

(* Mutant: the branches are polled while a remote call is outstanding too. *)
SelectReadyWhileBlocked == pc \in {"select", "rpc"}

(* The thread is parked in select!, polling both branches. *)
SelectReady == pc = "select"

(* Mutant: the line branch rearms the timer as the timer branch does. *)
SleepAfterLineRearmed == now + RearmSecs

(* The pinned Sleep across the line branch, which does not name it. *)
SleepAfterLine == deadline

(* Mutant: the line branch matches Ok(None) too, so it is taken at the end
   of the stream. *)
LineBranchAtEndOfStream == stdin_ready \/ stdin_eof

(* The pattern Ok(Some(line)): the branch is taken only when a line is read;
   on Ok(None) select! disables it and waits for the other branch. *)
LineBranch == stdin_ready

(* Ok(Some(line)) = stdin.next_line() => handle_input_line(&rpc_client, line).
   More lines may be waiting behind the one read. *)
HandleInputLine(l) ==
    /\ SelectReady
    /\ LineBranch
    /\ stdin_ready' \in BOOLEAN
    /\ event' = "line"
    /\ replies' = <<>>
    /\ line' = l
    /\ Dispatch(rpc, l)
    /\ deadline' = SleepAfterLine
    /\ UNCHANGED <<now, expired, stdin_eof>>

(* Mutant: the timer is rearmed from the deadline that elapsed. *)
TimerResetFromDeadline == deadline + RearmSecs

(* sleep.as_mut().reset(Instant::now() + Duration::from_secs(15)) *)
TimerReset == now + RearmSecs

(* Mutant: the commented-out mining check of the timer branch is live. *)
TimerBodyMining(pending) == GenerateBlocksIfRequired(pending, <<>>, <<>>, FALSE)

(* The timer branch besides the reset: the mining check is commented out. *)
TimerBody(pending) == Return(pending, <<>>, <<>>)

(* () = &mut sleep => { reset } *)
TimerElapsed ==
    /\ SelectReady
    /\ now >= deadline
    /\ event' = "timer"
    /\ replies' = <<>>
    /\ expired' = deadline
    /\ deadline' = TimerReset
    /\ TimerBody(rpc)
    /\ UNCHANGED <<now, stdin_ready, stdin_eof, line>>

-----------------------------------------------------------------------------
(* The continuations of the wrappers. *)

SendToAddressReturn(res) ==
    /\ Answered("sendToAddress")
    /\ replies' = Append(replies, res)
    /\ Return(Tail(rpc), calls,
              Append(out, IF res.ok
                          THEN Println("TxID: {}", <<>>, res.s, 0)
                          ELSE Println("Failed to send amount to address {}. Error {:?}",
                                       frame.addr, res.s, 0)))
    /\ UNCHANGED <<now, deadline, expired, stdin_ready, stdin_eof, event, line>>

GetRawMempoolReturn(res) ==
    /\ Answered("getRawMempool")
    /\ replies' = Append(replies, res)
    /\ LET do_print == frame.do_print IN
       IF res.ok
       THEN IF res.n > 0
            THEN Call(Tail(rpc), calls,
                      ConditionalPrint(do_print, out,
                          Println("Found new transactions, generating block", <<>>, "", 0)),
                      Request("getNewAddress", "", 0),
                      Frame("generate_blocks_if_required", frame.site, do_print, res.n, <<>>))
            ELSE Return(Tail(rpc), calls,
                        ConditionalPrint(do_print, out,
                            Println("No new transactions found", <<>>, "", 0)))
       ELSE Return(Tail(rpc), calls,
                   IF ~do_print
                   THEN ConditionalPrint(do_print, out,
                            Println("Error getting transactions from mempool {}",
                                    <<>>, res.s, 0))
                   ELSE out)
    /\ UNCHANGED <<now, deadline, expired, stdin_ready, stdin_eof, event, line>>

(* Mutant: one block is asked for per pending transaction. *)
GenerateRequestPerTransaction(new_address, pending_len) ==
    Request("generateToAddress", new_address, pending_len)

(* rpc_client.generate_to_address(1, &new_address) *)
GenerateRequest(new_address, pending_len) ==
    Request("generateToAddress", new_address, BlocksToGenerate)

GetNewAddressReturn(res) ==
    /\ Answered("getNewAddress")
    /\ replies' = Append(replies, res)
    /\ IF res.ok
       THEN Call(Tail(rpc), calls, out,
                 GenerateRequest(res.s, frame.n), frame)
       ELSE Panic(Tail(rpc), calls, out, "called Result::unwrap on an Err value", res.s)
    /\ UNCHANGED <<now, deadline, expired, stdin_ready, stdin_eof, event, line>>

GenerateToAddressReturn(res) ==
    /\ Answered("generateToAddress")
    /\ replies' = Append(replies, res)
    /\ Return(Tail(rpc), calls,
              ConditionalPrint(frame.do_print, out,
                  IF res.ok
                  THEN Println("Generated and sent new block. Transaction count: {}",
                               <<>>, "", frame.n)
                  ELSE Println("Error generating block {e}", <<>>, res.s, 0)))
    /\ UNCHANGED <<now, deadline, expired, stdin_ready, stdin_eof, event, line>>

-----------------------------------------------------------------------------
(* The program. *)

Init ==
    /\ pc = "init"
    /\ frame = NoFrame
    /\ rpc = <<>>
    /\ calls = <<>>
    /\ replies = <<>>
    /\ out = <<>>
    /\ now = 0
    /\ deadline = NoDeadline
    /\ expired = NoDeadline
    /\ stdin_ready = FALSE
    /\ stdin_eof = FALSE
    /\ event = "none"
    /\ line = NoLine

Next ==
    \/ Tick
    \/ LineArrives
    \/ StdinClose
    \/ MainStart
    \/ \E res \in LoadWalletResults : LoadWalletReturn(res)
    \/ \E res \in BlockCountResults : GetBlockCountReturn(res)
    \/ \E res \in BalanceResults : GetBalanceReturn(res)
    \/ LoopNext
    \/ \E l \in Lines : HandleInputLine(l)
    \/ TimerElapsed
    \/ \E res \in SendResults : SendToAddressReturn(res)
    \/ \E res \in MempoolResults : GetRawMempoolReturn(res)
    \/ \E res \in NewAddressResults : GetNewAddressReturn(res)
    \/ \E res \in GenerateResults : GenerateToAddressReturn(res)

Spec == Init /\ [][Next]_vars

-----------------------------------------------------------------------------
(* generate_blocks_if_required on its own, for either value of do_print. *)

MinerEntry ==
    /\ pc = "entry"
    /\ replies' = <<>>
    /\ GenerateBlocksIfRequired(rpc, <<>>, <<>>, frame.do_print)
    /\ UNCHANGED <<now, deadline, expired, stdin_ready, stdin_eof, event, line>>

MinerInit ==
    /\ pc = "entry"
    /\ frame \in {Frame("caller", "caller", d, 0, <<>>) : d \in BOOLEAN}
    /\ rpc = <<>>
    /\ calls = <<>>
    /\ replies = <<>>
    /\ out = <<>>
    /\ now = 0
    /\ deadline = NoDeadline
    /\ expired = NoDeadline
    /\ stdin_ready = FALSE
    /\ stdin_eof = FALSE
    /\ event = "miner"
    /\ line = NoLine

MinerNext ==
    \/ Tick
    \/ MinerEntry
    \/ \E res \in MempoolResults : GetRawMempoolReturn(res)
    \/ \E res \in NewAddressResults : GetNewAddressReturn(res)
    \/ \E res \in GenerateResults : GenerateToAddressReturn(res)

SpecMiner == MinerInit /\ [][MinerNext]_vars

-----------------------------------------------------------------------------
(* The vocabulary of the properties: a line read off its characters. *)

SpacesIn(l) == {i \in 1..Len(l) : l[i] = SP}

NumFields(l) == Cardinality(SpacesIn(l)) + 1

(* The position of the k-th space; 0 before the first field, Len + 1 after the last. *)
SpaceAt(l, k) ==
    IF k = 0 THEN 0
    ELSE IF k > Cardinality(SpacesIn(l)) THEN Len(l) + 1
    ELSE CHOOSE i \in SpacesIn(l) : Cardinality({j \in SpacesIn(l) : j < i}) = k - 1

(* The k-th space-separated field of the line, for k in 1..NumFields(l). *)
FieldAt(l, k) == SubSeq(l, SpaceAt(l, k - 1) + 1, SpaceAt(l, k) - 1)

IsSendLine(l) == FieldAt(l, 1) = <<"sendtoaddress">>

HandlingLine == event = "line" /\ line # NoLine

InvalidCommandError == Eprintln("Invalid command", <<>>, "", 0)
MissingArgumentError == Eprintln("Bitcoin address required", <<>>, "", 0)
AmountParseError(cause) == Eprintln("Error parsing amount {:?}", <<>>, cause, 0)
FloatErrors == {"invalid float literal", "cannot parse float from empty string"}

LastReplyFailed == replies # <<>> /\ ~replies[Len(replies)].ok

-----------------------------------------------------------------------------
(* C1: once the loop has been entered, no failure of a remote call issued by
   a handled event leads to a terminated process. *)
C1_RemoteFailureNeverFatal ==
    ~(pc = "panicked" /\ event \in {"line", "timer"} /\ LastReplyFailed)

(* C2: a line whose first token is none of the four keywords, the empty line
   included, prints exactly one "Invalid command" error, issues no remote
   call, and the handler returns to the loop. *)
C2_InvalidCommand ==
    (HandlingLine /\ \A kw \in Keywords : FieldAt(line, 1) # <<kw>>)
        => /\ pc = "returned"
           /\ calls = <<>>
           /\ rpc = <<>>
           /\ out = <<InvalidCommandError>>

C2_Witness ==
    /\ HandlingLine
    /\ line = <<>>
    /\ pc = "returned"
    /\ out = <<InvalidCommandError>>

(* C3: a sendtoaddress line with fewer than two arguments after the keyword
   (none, or the address only) prints a missing-argument error and issues no
   remote call. *)
C3_MissingArgument ==
    (HandlingLine /\ IsSendLine(line) /\ NumFields(line) < 3)
        => /\ pc = "returned"
           /\ calls = <<>>
           /\ rpc = <<>>
           /\ out = <<MissingArgumentError>>

C3_Witness ==
    /\ HandlingLine
    /\ line = <<"sendtoaddress", SP, "bcrt1qaddr">>
    /\ pc = "returned"
    /\ calls = <<>>
    /\ out = <<MissingArgumentError>>

(* C4: a sendtoaddress line whose amount is negative is rejected as a parse
   failure: an error is printed, no remote call is issued, and the handler
   returns to the loop. *)
C4_NegativeAmountRejected ==
    (HandlingLine /\ IsSendLine(line) /\ NumFields(line) >= 3
                  /\ FieldAt(line, 3) = <<"-1">>)
        => /\ pc = "returned"
           /\ calls = <<>>
           /\ \E i \in 1..Len(out) : out[i].fd = "stderr"

(* C5: a sendtoaddress line whose amount is no number prints an amount-parse
   error and nothing else (the address is not examined), issues no remote
   call, and the handler returns to the loop. *)
C5_AmountParseError ==
    (HandlingLine /\ IsSendLine(line) /\ NumFields(line) >= 3
                  /\ FieldAt(line, 3) \notin {<<"0.5">>, <<"-1">>})
        => /\ pc = "returned"
           /\ calls = <<>>
           /\ rpc = <<>>
           /\ \E cause \in FloatErrors : out = <<AmountParseError(cause)>>

C5_Witness ==
    /\ HandlingLine
    /\ line = <<"sendtoaddress", SP, "notanumber", SP, "notanumber">>
    /\ pc = "returned"
    /\ calls = <<>>
    /\ out = <<AmountParseError("invalid float literal")>>

-----------------------------------------------------------------------------
(* The mining check. *)

MempoolNonEmpty == replies # <<>> /\ replies[1].ok /\ replies[1].n > 0
MempoolEmpty == replies # <<>> /\ replies[1].ok /\ replies[1].n = 0

CheckingLine == Println("Checking for new transactions", <<>>, "", 0)
FoundLine == Println("Found new transactions, generating block", <<>>, "", 0)
NoneFoundLine == Println("No new transactions found", <<>>, "", 0)
GeneratedLine(n) ==
    Println("Generated and sent new block. Transaction count: {}", <<>>, "", n)

(* C6, as claimed: a finished mining check whose mempool query returned a
   non-empty list has issued one getNewAddress request followed by one
   generateToAddress request for one block. *)
C6_AlwaysGenerates ==
    (event = "miner" /\ MempoolNonEmpty /\ pc \in {"returned", "panicked"})
        => /\ Len(calls) = 3
           /\ calls[2].op = "getNewAddress"
           /\ calls[3].op = "generateToAddress"
           /\ calls[3].n = 1

(* C6, amended: a mining check whose mempool query returned a non-empty list
   of n entries issues exactly one getNewAddress request next; exactly when
   that request succeeds it then issues exactly one generateToAddress request
   for 1 block to the address returned, and nothing else; when that succeeds
   it prints, if verbose, the count n of the mempool answer.  When
   getNewAddress fails the check panics without a generateToAddress request. *)
C6_GeneratesAfterNewAddress ==
    (event = "miner" /\ MempoolNonEmpty)
        => /\ Len(calls) \in {2, 3}
           /\ calls[1] = Request("getRawMempool", "", 0)
           /\ calls[2] = Request("getNewAddress", "", 0)
           /\ (Len(calls) = 3) <=> (Len(replies) >= 2 /\ replies[2].ok)
           /\ Len(calls) = 3
                => calls[3] = Request("generateToAddress", replies[2].s, 1)
           /\ (Len(replies) >= 2 /\ ~replies[2].ok) => pc = "panicked"
           /\ Len(replies) = 3
                => /\ pc = "returned"
                   /\ replies[3].ok
                        => out = IF frame.do_print
                                 THEN <<CheckingLine, FoundLine,
                                        GeneratedLine(replies[1].n)>>
                                 ELSE <<>>

C6_Witness ==
    /\ event = "miner"
    /\ pc = "returned"
    /\ frame.do_print
    /\ Len(replies) = 3
    /\ replies[1] = Ok("", 2)
    /\ replies[3].ok
    /\ Len(calls) = 3
    /\ out[Len(out)] = GeneratedLine(2)

(* C7: a mining check whose mempool query returned an empty list issues no
   getNewAddress and no generateToAddress request, and prints "No new
   transactions found" exactly when verbose: nothing at all otherwise. *)
C7_EmptyMempool ==
    (event = "miner" /\ MempoolEmpty)
        => /\ pc = "returned"
           /\ calls = <<Request("getRawMempool", "", 0)>>
           /\ rpc = <<>>
           /\ out = IF frame.do_print THEN <<CheckingLine, NoneFoundLine>> ELSE <<>>

C7_Witness ==
    /\ event = "miner"
    /\ MempoolEmpty
    /\ pc = "returned"
    /\ frame.do_print
    /\ out = <<CheckingLine, NoneFoundLine>>

-----------------------------------------------------------------------------
(* C8: a sendtoaddress line with a valid address and a valid non-negative
   amount issues exactly one sendToAddress request carrying that address and
   amount and no other request; once answered, the output is the transaction
   id on success and the cause on failure, and the handler returns to the
   loop. *)
C8_SendIssuesOneCall ==
    \A a \in ValidAddresses :
        (HandlingLine /\ IsSendLine(line) /\ NumFields(line) >= 3
                      /\ FieldAt(line, 2) = <<a>> /\ FieldAt(line, 3) = <<"0.5">>)
            => /\ calls = <<Request("sendToAddress", a, 50000000)>>
               /\ \/ /\ pc = "rpc"
                     /\ rpc = calls
                     /\ replies = <<>>
                     /\ out = <<>>
                  \/ /\ pc = "returned"
                     /\ rpc = <<>>
                     /\ Len(replies) = 1
                     /\ out = <<IF replies[1].ok
                                THEN Println("TxID: {}", <<>>, replies[1].s, 0)
                                ELSE Println("Failed to send amount to address {}. Error {:?}",
                                             <<a>>, replies[1].s, 0)>>

C8_Witness ==
    /\ HandlingLine
    /\ line = <<"sendtoaddress", SP, "bcrt1qaddr", SP, "0.5">>
    /\ pc = "returned"
    /\ calls = <<Request("sendToAddress", "bcrt1qaddr", 50000000)>>
    /\ out = <<Println("TxID: {}", <<>>, "abc123", 0)>>

(* C9: events are handled one at a time: a line is handed to the dispatcher
   and the timer is rearmed only by a thread parked in select! with no remote
   call outstanding, so neither happens while an event is being handled; and
   at most one remote call is outstanding. *)
C9_OneEventAtATime ==
    [][/\ Len(rpc') <= 1
       /\ ((line' # line /\ line' # NoLine)
              \/ (deadline' # deadline /\ event # "startup"))
            => (pc = "select" /\ rpc = <<>>)]_vars

C9_Witness ==
    /\ pc = "rpc"
    /\ event = "line"
    /\ Len(rpc) = 1
    /\ stdin_ready
    /\ now > deadline

(* C10: when the timer branch has run, the deadline is the instant it
   completed plus 15 seconds, however late the branch ran. *)
C10_RearmedFromNow ==
    (event = "timer" /\ pc = "returned") => deadline = now + 15

C10_Witness ==
    /\ event = "timer"
    /\ pc = "returned"
    /\ now > expired
    /\ deadline = now + 15
    /\ deadline # expired + 15

-----------------------------------------------------------------------------
(* C11: when the mempool query fails in a mining check called with
   do_print = FALSE, the failure is still reported: an error line is printed. *)
C11_SilentFailureReported ==
    (event = "miner" /\ ~frame.do_print /\ pc = "returned"
                     /\ Len(replies) = 1 /\ ~replies[1].ok)
        => \E i \in 1..Len(out) :
               out[i].msg = "Error getting transactions from mempool {}"

-----------------------------------------------------------------------------
(* C12: a failed loadWallet at startup is reported and is not fatal: the
   block-count query follows at once, then (when it succeeds) the balance
   query, then (when that succeeds) the banner, in that order; the startup
   panics only on a failed block-count or balance query, and the loop is
   entered when both succeed. *)
WalletLoadFailed == event = "startup" /\ replies # <<>> /\ ~replies[1].ok

StartupCalls ==
    <<Request("loadWallet", WalletName, 0), Request("getBlockCount", "", 0),
      Request("getBalance", "", 0)>>

C12_WalletFailureNotFatal ==
    WalletLoadFailed
        => /\ out # <<>>
           /\ out[1] = Println("Failed to load wallet {:?}", <<>>, replies[1].s, 0)
           /\ calls = SubSeq(StartupCalls, 1, Len(calls))
           /\ Len(calls) >= 2
           /\ (Len(replies) >= 2 /\ replies[2].ok) => Len(calls) = 3
           /\ pc = "panicked" => (Len(replies) >= 2 /\ LastReplyFailed)
           /\ (Len(replies) = 3 /\ replies[2].ok /\ replies[3].ok)
                => /\ pc = "returned"
                   /\ deadline = now + 15
                   /\ out = <<Println("Failed to load wallet {:?}", <<>>, replies[1].s, 0),
                              Println("Current block count: {}", <<>>, "", replies[2].n),
                              Println("Current balance: {}", <<>>, "", replies[3].n),
                              Println("-- TYPE COMMANDS --", <<>>, "", 0)>>

C12_Witness ==
    /\ WalletLoadFailed
    /\ pc = "returned"
    /\ Len(out) = 4
    /\ out[4] = Println("-- TYPE COMMANDS --", <<>>, "", 0)

-----------------------------------------------------------------------------
(* C13: a sendtoaddress line whose amount is a valid amount and whose address
   is no valid address prints an address error, issues no remote call, and
   the handler returns to the loop. *)
AddressError == Eprintln("Error parsing address {:?}", <<>>, "address parse error", 0)

C13_InvalidAddressSkipsCall ==
    (HandlingLine /\ IsSendLine(line) /\ NumFields(line) >= 3
                  /\ FieldAt(line, 3) = <<"0.5">>
                  /\ \A a \in ValidAddresses : FieldAt(line, 2) # <<a>>)
        => /\ pc = "returned"
           /\ calls = <<>>
           /\ rpc = <<>>
           /\ out = <<AddressError>>

C13_Witness ==
    /\ HandlingLine
    /\ line = <<"sendtoaddress", SP, "notanumber", SP, "0.5">>
    /\ pc = "returned"
    /\ calls = <<>>
    /\ out = <<AddressError>>

-----------------------------------------------------------------------------
(* C14: a timer event does nothing but rearm the timer: it issues no remote
   call, prints nothing, reads no line, and its branch has returned as soon
   as it has run. *)
TimerQuiet ==
    /\ pc = "returned"
    /\ calls = <<>>
    /\ replies = <<>>
    /\ out = <<>>
    /\ rpc = <<>>

C14_TimerOnlyRearms ==
    [][event' = "timer"
         => /\ TimerQuiet'
            /\ event # "timer"
                 => UNCHANGED <<now, stdin_ready, stdin_eof, line, frame>>]_vars

C14_Witness ==
    /\ event = "timer"
    /\ TimerQuiet
    /\ expired # NoDeadline
    /\ deadline > expired

-----------------------------------------------------------------------------
(* C15, as claimed: when a handled input line has returned to the loop, the
   timer's deadline is that instant plus 15 seconds. *)
C15_RearmedAfterLine ==
    (event = "line" /\ pc = "returned") => deadline = now + 15

(* C15, amended: only a timer event rearms the timer, to 15 seconds after the
   instant its branch runs; reading and handling an input line leaves the
   deadline as it was. *)
C15_OnlyTimerRearms ==
    [][/\ event' = "line" => deadline' = deadline
       /\ (event # "timer" /\ event' = "timer") => deadline' = now' + 15]_vars

C15_Witness ==
    /\ event = "line"
    /\ pc = "returned"
    /\ replies # <<>>
    /\ deadline # now + 15
    /\ deadline > now

-----------------------------------------------------------------------------
(* The whitespace tokens of a line: its words, in order, the spaces dropped. *)
Tokens(l) == SelectSeq(l, LAMBDA x : x # SP)

RECURSIVE SingleSpaced(_)
(* The tokens joined by one space each, nothing before the first. *)
SingleSpaced(ts) ==
    IF Len(ts) <= 1 THEN ts
    ELSE <<Head(ts), SP>> \o SingleSpaced(Tail(ts))

(* C16, as claimed: a line is handled exactly as the line made of its
   whitespace tokens with single spaces between them: leading spaces and runs
   of spaces change neither the keyword nor the arguments. *)
C16_WhitespaceTokens ==
    [][(line' # line /\ line' # NoLine)
           => Dispatch(rpc, SingleSpaced(Tokens(line')))]_vars

-----------------------------------------------------------------------------
(* What a command that only asks the node one question does: the one call,
   and on success the value reported and the handler returned. *)
AsksOnce(op, text) ==
    /\ calls = <<Request(op, "", 0)>>
    /\ \/ /\ pc = "rpc"
          /\ rpc = calls
          /\ replies = <<>>
          /\ out = <<>>
       \/ /\ rpc = <<>>
          /\ Len(replies) = 1
          /\ replies[1].ok
               => /\ pc = "returned"
                  /\ out = <<Println(text, <<>>, "", replies[1].n)>>

(* C17: the balance command issues exactly one getBalance call and no other
   call, the blockcount command exactly one getBlockCount call and no other;
   on success the returned value is reported and the handler returns to the
   loop. *)
C17_BalanceAndBlockCount ==
    /\ (HandlingLine /\ FieldAt(line, 1) = <<"balance">>)
           => AsksOnce("getBalance", "Current balance: {}")
    /\ (HandlingLine /\ FieldAt(line, 1) = <<"blockcount">>)
           => AsksOnce("getBlockCount", "Current block count: {}")

C17_Witness ==
    /\ HandlingLine
    /\ line = <<"balance">>
    /\ pc = "returned"
    /\ calls = <<Request("getBalance", "", 0)>>
    /\ replies = <<Ok("", 1250000000)>>
    /\ out = <<Println("Current balance: {}", <<>>, "", 1250000000)>>

-----------------------------------------------------------------------------
(* Standard input has reached its end: the stream is closed and every line
   written before has been read. *)
EndOfStream == stdin_eof /\ ~stdin_ready

(* C18: once standard input has reached its end it stays so, no line is ever
   handed to the dispatcher again, and the thread parked in select! leaves it
   only through the timer branch: when the deadline has passed, issuing no
   remote call, back to the loop and not out of it, with the next deadline
   later than the current instant, so that the next iteration waits for the
   clock. *)
C18_OnlyTimerAfterEndOfStream ==
    [][EndOfStream
         => /\ EndOfStream'
            /\ line' # line => line' = NoLine
            /\ pc = "select"
                 => /\ calls' = <<>>
                    /\ rpc' = <<>>
                    /\ \/ pc' = "select" /\ event' = event
                       \/ /\ pc' = "returned"
                          /\ event' = "timer"
                          /\ now >= deadline
                          /\ deadline' > now']_vars

C18_Witness ==
    /\ EndOfStream
    /\ event = "timer"
    /\ pc = "returned"
    /\ expired # NoDeadline
    /\ calls = <<>>

-----------------------------------------------------------------------------
(* The line up to the end of its k-th field; the whole line if it has fewer. *)
FirstFields(l, k) == SubSeq(l, 1, SpaceAt(l, k) - 1)

(* The fields a command reads: sendtoaddress its keyword and two arguments,
   the other commands their keyword. *)
FieldsRead(l) ==
    CASE FieldAt(l, 1) = <<"sendtoaddress">> -> 3
      [] FieldAt(l, 1) \in {<<"mine">>, <<"balance">>, <<"blockcount">>} -> 1
      [] OTHER -> NumFields(l)

(* C19: a line is handled exactly as the line cut after the fields its
   command reads: the same remote call or the same output, never an error for
   too many arguments. *)
C19_ExtraTokensIgnored ==
    [][(line' # line /\ line' # NoLine)
           => Dispatch(rpc, FirstFields(line', FieldsRead(line')))]_vars

C19_Witness ==
    /\ HandlingLine
    /\ line = <<"sendtoaddress", SP, "bcrt1qaddr", SP, "0.5", SP, "extra">>
    /\ pc = "returned"
    /\ calls = <<Request("sendToAddress", "bcrt1qaddr", 50000000)>>
    /\ out = <<Println("TxID: {}", <<>>, "abc123", 0)>>

====
